---- MODULE Spec2Model ----
(***************************************************************************)
(* A model of calc.py: the Parser that compiles operator tables into a     *)
(* grammar, parses a token sequence with it, and the Transformer that      *)
(* evaluates the parse tree against the identifiers of the call.           *)
(*                                                                         *)
(* Text is modelled after lexing, as a sequence of token strings: the      *)
(* lexer (whitespace, NUMBER, CNAME) belongs to the lark library.          *)
(***************************************************************************)
EXTENDS Integers, Sequences, FiniteSets, TLC

(***************************************************************************)
(* Python values.  Every value is a record of one shape, so that values of *)
(* different Python types can be compared.                                 *)
(*   int n            t = "int",   n = n                                   *)
(*   str of decimal n t = "str",   n = n   (the text of the number n)      *)
(*   a callable       t = "fn",    f = its name                            *)
(*   a value outside the modelled range (huge int, float result)           *)
(*                    t = "other"                                          *)
(***************************************************************************)
PyInt(n) == [t |-> "int", n |-> n, f |-> "-"]
PyStr(n) == [t |-> "str", n |-> n, f |-> "-"]
PyFn(name) == [t |-> "fn", n |-> 0, f |-> name]
PyOther == [t |-> "other", n |-> 0, f |-> "-"]
PyNone == [t |-> "None", n |-> 0, f |-> "-"]

\* Integers of larger magnitude than this are not tracked exactly.
ValueLimit == 10000

Norm(n) == IF n > ValueLimit \/ n < -ValueLimit THEN PyOther ELSE PyInt(n)

(***************************************************************************)
(* Outcomes of a Python call: a returned value or a raised exception.      *)
(***************************************************************************)
Ok(v) == [ok |-> TRUE, val |-> v, exc |-> "-", msg |-> "-"]
Raise(exc, msg) == [ok |-> FALSE, val |-> PyNone, exc |-> exc, msg |-> msg]

\* a ** b for b >= 0, multiplied out until it leaves the tracked range.
RECURSIVE PowAcc(_, _, _)
PowAcc(a, b, acc) ==
    IF b = 0 \/ acc > ValueLimit \/ acc < -ValueLimit THEN acc
    ELSE PowAcc(a, b - 1, acc * a)

PowNat(a, b) ==
    IF b = 0 \/ a = 1 THEN 1
    ELSE IF a = 0 THEN 0
    ELSE IF a = -1 THEN (IF b % 2 = 0 THEN 1 ELSE -1)
    ELSE PowAcc(a, b, 1)

Abs(a) == IF a < 0 THEN -a ELSE a
Sign(a) == IF a < 0 THEN -1 ELSE 1

\* math.remainder(a, b) for b > 0: a less the multiple of b nearest to a,
\* the even multiple on a tie.
Remainder(a, b) ==
    LET m == a % b
        q == (a - m) \div b
    IN  IF 2 * m < b THEN m
        ELSE IF 2 * m > b THEN m - b
        ELSE IF q % 2 = 0 THEN m ELSE m - b

Min2(a, b) == IF b < a THEN b ELSE a
Max2(a, b) == IF b > a THEN b ELSE a

(***************************************************************************)
(* The callables that appear in operator tables and identifier dicts.      *)
(* Call(fn, args) is the call of fn with the positional arguments args.   *)
(***************************************************************************)
Arity ==
    [add |-> {2}, sub |-> {2}, mul |-> {2}, pow |-> {2},
     neg |-> {1}, pos |-> {1}, dbl |-> {1}, inc |-> {1}, sqr |-> {1}, first |-> {3},
     truediv |-> {2}, remainder |-> {2},
     min |-> {2, 3}, max |-> {2, 3}, floor |-> {1}, ceil |-> {1}, round |-> {1},
     clamp |-> {3}, sin |-> {1}, cos |-> {1}, tan |-> {1}, asin |-> {1},
     acos |-> {1}, atan |-> {1}, atan2 |-> {2},
     raise_KeyError |-> {1, 2}, raise_IndexError |-> {1, 2},
     raise_ZeroDivisionError |-> {1, 2}]

AllInt(args) == \A i \in 1..Len(args) : args[i].t = "int"

CallInt(fn, a) ==
    CASE fn = "add" -> Ok(Norm(a[1].n + a[2].n))
      [] fn = "sub" -> Ok(Norm(a[1].n - a[2].n))
      [] fn = "mul" -> Ok(Norm(a[1].n * a[2].n))
      [] fn = "pow" -> IF a[2].n < 0
                       THEN IF a[1].n = 0 THEN Raise("ZeroDivisionError", "pow")
                            ELSE Ok(PyOther)
                       ELSE Ok(Norm(PowNat(a[1].n, a[2].n)))
      [] fn = "neg" -> Ok(PyInt(-a[1].n))
      [] fn = "pos" -> Ok(a[1])
      [] fn = "dbl" -> Ok(Norm(a[1].n * 2))
      [] fn = "inc" -> Ok(Norm(a[1].n + 1))
      [] fn = "sqr" -> Ok(Norm(a[1].n * a[1].n))
      [] fn = "first" -> Ok(a[1])
      [] fn = "min" -> Ok(PyInt(IF Len(a) = 2 THEN Min2(a[1].n, a[2].n)
                                ELSE Min2(Min2(a[1].n, a[2].n), a[3].n)))
      [] fn = "max" -> Ok(PyInt(IF Len(a) = 2 THEN Max2(a[1].n, a[2].n)
                                ELSE Max2(Max2(a[1].n, a[2].n), a[3].n)))
      [] fn = "truediv" -> IF a[2].n = 0 THEN Raise("ZeroDivisionError", "division")
                           ELSE IF a[1].n % Abs(a[2].n) = 0
                                THEN Ok(PyInt(Sign(a[2].n) * (a[1].n \div Abs(a[2].n))))
                                ELSE Ok(PyOther)
      [] fn = "remainder" -> IF a[2].n = 0 THEN Raise("ValueError", "math domain error")
                             ELSE Ok(PyInt(Remainder(a[1].n, Abs(a[2].n))))
      [] fn \in {"floor", "ceil", "round"} -> Ok(a[1])
      [] fn = "clamp" -> Ok(PyInt(Min2(Max2(a[2].n, a[1].n), a[3].n)))
      [] fn \in {"sin", "tan", "atan"} -> IF a[1].n = 0 THEN Ok(PyInt(0)) ELSE Ok(PyOther)
      [] fn = "cos" -> IF a[1].n = 0 THEN Ok(PyInt(1)) ELSE Ok(PyOther)
      [] fn = "asin" -> IF a[1].n = 0 THEN Ok(PyInt(0))
                        ELSE IF Abs(a[1].n) = 1 THEN Ok(PyOther)
                        ELSE Raise("ValueError", "math domain error")
      [] fn = "acos" -> IF a[1].n = 1 THEN Ok(PyInt(0))
                        ELSE IF Abs(a[1].n) <= 1 THEN Ok(PyOther)
                        ELSE Raise("ValueError", "math domain error")
      [] fn = "atan2" -> IF a[1].n = 0 /\ a[2].n >= 0 THEN Ok(PyInt(0)) ELSE Ok(PyOther)
      [] OTHER -> Raise("TypeError", fn)

Call(v, args) ==
    IF v.t # "fn" THEN Raise("TypeError", "not callable")
    ELSE IF v.f \notin DOMAIN Arity \/ Len(args) \notin Arity[v.f]
         THEN Raise("TypeError", "arguments")
    ELSE IF v.f = "raise_KeyError" THEN Raise("KeyError", "callable")
    ELSE IF v.f = "raise_IndexError" THEN Raise("IndexError", "callable")
    ELSE IF v.f = "raise_ZeroDivisionError" THEN Raise("ZeroDivisionError", "callable")
    ELSE IF \E i \in 1..Len(args) : args[i].t \in {"fn", "str", "None"}
         THEN Raise("TypeError", "operand")
    ELSE IF ~AllInt(args) THEN Ok(PyOther)
    ELSE CallInt(v.f, args)

(***************************************************************************)
(* Python dicts keep insertion order: a dict is a sequence of entries      *)
(* [key, val] with distinct keys.  Assigning to a present key keeps its    *)
(* position.                                                               *)
(***************************************************************************)
DictHas(d, k) == \E i \in 1..Len(d) : d[i].key = k
DictIndex(d, k) == CHOOSE i \in 1..Len(d) : d[i].key = k
DictGet(d, k) == d[DictIndex(d, k)].val
DictSet(d, k, v) ==
    IF DictHas(d, k)
    THEN [d EXCEPT ![DictIndex(d, k)] = [key |-> k, val |-> v]]
    ELSE Append(d, [key |-> k, val |-> v])
DictKeys(d) == [i \in 1..Len(d) |-> d[i].key]

\* x or default, for an optional dict argument: None and {} are both falsy.
NotGiven == [given |-> FALSE, items |-> << >>]
Given(items) == [given |-> TRUE, items |-> items]
Truthy(arg) == arg.given /\ Len(arg.items) > 0
PyOr(arg, default) == IF Truthy(arg) THEN arg ELSE default

(***************************************************************************)
(* Operator tables.  A unary entry is [tok, side, fn]; a binary entry is   *)
(* [tok, pr, assoc, fn] where assoc = "omitted" stands for a 2-tuple tag.  *)
(***************************************************************************)
UTag(tok, side, fn) == [tok |-> tok, side |-> side, fn |-> PyFn(fn)]
BTag(tok, pr, assoc, fn) == [tok |-> tok, pr |-> pr, assoc |-> assoc, fn |-> PyFn(fn)]

default_unary_operators ==
    Given(<< UTag("-", "prefix", "neg"), UTag("+", "prefix", "pos") >>)

default_binary_operators ==
    Given(<< BTag("+", PyInt(3), "omitted", "add"),
             BTag("-", PyInt(3), "omitted", "sub"),
             BTag("*", PyInt(2), "omitted", "mul"),
             BTag("/", PyInt(2), "omitted", "truediv"),
             BTag("%", PyInt(2), "omitted", "remainder"),
             BTag("^", PyInt(1), "rl", "pow") >>)

default_names ==
    << "min", "max", "floor", "ceil", "round", "clamp", "sin", "cos", "tan",
       "asin", "acos", "atan", "atan2" >>

default_identifiers ==
    Given([i \in 1..Len(default_names) |->
              [key |-> default_names[i], val |-> PyFn(default_names[i])]])

(***************************************************************************)
(* Parser.__init__, the operator dicts.                                    *)
(***************************************************************************)
RECURSIVE UnaryDict(_, _, _)
UnaryDict(items, side, acc) ==
    IF items = << >> THEN acc
    ELSE LET e == Head(items)
         IN  UnaryDict(Tail(items), side,
                       IF e.side = side THEN DictSet(acc, e.tok, e.fn) ELSE acc)

\* One turn of the loop over binary_operators.items(); st is
\* [err, oblr, obrl], err the exception raised so far ("-" for none).
BinaryStepAllLr(st, e) ==
    IF e.assoc \in {"omitted", "lr", "rl"}
    THEN LET data == IF DictHas(st.oblr, e.pr) THEN DictGet(st.oblr, e.pr) ELSE << >>
         IN  [st EXCEPT !.oblr = DictSet(st.oblr, e.pr, DictSet(data, e.tok, e.fn))]
    ELSE [st EXCEPT !.err = "ValueError"]
BinaryStep(st, e) ==
    IF e.assoc = "omitted" \/ e.assoc = "lr"
    THEN LET data == IF DictHas(st.oblr, e.pr) THEN DictGet(st.oblr, e.pr) ELSE << >>
         IN  [st EXCEPT !.oblr = DictSet(st.oblr, e.pr, DictSet(data, e.tok, e.fn))]
    ELSE IF e.assoc = "rl"
    THEN LET data == IF DictHas(st.obrl, e.pr) THEN DictGet(st.obrl, e.pr) ELSE << >>
         IN  [st EXCEPT !.obrl = DictSet(st.obrl, e.pr, DictSet(data, e.tok, e.fn))]
    ELSE [st EXCEPT !.err = "ValueError"]

RECURSIVE BinaryDicts(_, _)
BinaryDicts(items, st) ==
    IF items = << >> \/ st.err # "-" THEN st
    ELSE BinaryDicts(Tail(items), BinaryStep(st, Head(items)))

(***************************************************************************)
(* Formatting a precedence into a rule name (an f-string calls str) and    *)
(* reading it back (Transformer.re_binary_op, int).  Text is a sequence of *)
(* one-character strings.                                                  *)
(***************************************************************************)
DigitChars == << "0", "1", "2", "3", "4", "5", "6", "7", "8", "9" >>
IsDigit(c) == \E i \in 1..10 : DigitChars[i] = c
DigitValue(c) == (CHOOSE i \in 1..10 : DigitChars[i] = c) - 1

RECURSIVE NatStr(_)
NatStr(n) ==
    IF n < 10 THEN << DigitChars[n + 1] >>
    ELSE NatStr(n \div 10) \o << DigitChars[(n % 10) + 1] >>

IntStr(n) == IF n < 0 THEN << "-" >> \o NatStr(-n) ELSE NatStr(n)

\* str(v) for the values used as precedences.
Str(v) ==
    CASE v.t = "int" -> IntStr(v.n)
      [] v.t = "str" -> IntStr(v.n)
      [] OTHER -> << "?" >>

\* The names of grammar rules and terminals: a fixed stem and the text of
\* a precedence (empty for the rules of the template).
Name(base, sfx) == [base |-> base, sfx |-> sfx]
Plain(base) == Name(base, << >>)

\* The length of the longest prefix of digits of s.
RECURSIVE DigitRun(_)
DigitRun(s) ==
    IF s = << >> \/ ~IsDigit(Head(s)) THEN 0 ELSE 1 + DigitRun(Tail(s))

RECURSIVE DigitsInt(_, _)
DigitsInt(s, acc) ==
    IF s = << >> THEN acc ELSE DigitsInt(Tail(s), 10 * acc + DigitValue(Head(s)))

\* re.search(r"eb(rl|lr)(-?\d+)", attr): [found, dir, precedence].
re_binary_op(attr) ==
    LET neg  == attr.sfx # << >> /\ Head(attr.sfx) = "-"
        rest == IF neg THEN Tail(attr.sfx) ELSE attr.sfx
        k    == DigitRun(rest)
        v    == DigitsInt(SubSeq(rest, 1, k), 0)
    IN  IF attr.base \in {"eblr", "ebrl"} /\ k > 0
        THEN [found |-> TRUE, dir |-> IF attr.base = "eblr" THEN "lr" ELSE "rl",
              precedence |-> IF neg THEN -v ELSE v]
        ELSE [found |-> FALSE, dir |-> "-", precedence |-> 0]

(***************************************************************************)
(* The grammar.  A rule is [name, form, next, op]:                         *)
(*   pass     ?name: next                                                  *)
(*   lrec     ?name: next | name op next                                   *)
(*   rrec     ?name: next | next op name                                   *)
(*   prefix   ?name: next | op name  -> eul                                *)
(*   postfix  ?name: next | name op  -> eur                                *)
(* data is the name its tree nodes carry: the alias, or the rule's name.    *)
(* A terminal is [name, toks].                                             *)
(***************************************************************************)
Aliased(name, form, next, op, data) ==
    [name |-> name, form |-> form, next |-> next, op |-> op, data |-> data]
Rule(name, form, next, op) == Aliased(name, form, next, op, name)
NoTerminal == Plain("-")

\* The rule an associativity group falls through to below its last level.
final_rule(rl) == IF rl THEN Plain("eul") ELSE Plain("ebrl")

\* The recursion of a level: on its right for rl, on its left for lr.
LevelFormSwapped(rl) == IF rl THEN "lrec" ELSE "rrec"
LevelForm(rl) == IF rl THEN "rrec" ELSE "lrec"

make_binary_exprs(operators, rl) ==
    LET edir == IF rl THEN "ebrl" ELSE "eblr"
        odir == IF rl THEN "OBRL" ELSE "OBLR"
        precedences == DictKeys(operators)
        n == Len(precedences)
        begin_rule ==
            IF n > 0
            THEN Rule(Plain(edir), "pass", Name(edir, Str(precedences[1])), NoTerminal)
            ELSE Rule(Plain(edir), "pass", final_rule(rl), NoTerminal)
        expr(i) ==
            LET pr == precedences[i]
                next_expr == IF i = n THEN final_rule(rl)
                             ELSE Name(edir, Str(precedences[i + 1]))
            IN  Rule(Name(edir, Str(pr)), LevelForm(rl), next_expr, Name(odir, Str(pr)))
    IN  << begin_rule >> \o [i \in 1..n |-> expr(i)]

make_binary_ops(ops_dict, rl) ==
    LET odir == IF rl THEN "OBRL" ELSE "OBLR"
    IN  [i \in 1..Len(ops_dict) |->
            [name |-> Name(odir, Str(ops_dict[i].key)),
             toks |-> DictKeys(ops_dict[i].val)]]

\* The rules of the unary operators: eul (prefix) above eur (postfix)
\* above atom.
UnaryRulesSwapped(oul, our) ==
    << IF Len(our) > 0
       THEN Aliased(Plain("eul"), "postfix", Plain("eur"), Plain("OUR"), Plain("eur"))
       ELSE Rule(Plain("eul"), "pass", Plain("eur"), NoTerminal),
       IF Len(oul) > 0
       THEN Aliased(Plain("eur"), "prefix", Plain("atom"), Plain("OUL"), Plain("eul"))
       ELSE Rule(Plain("eur"), "pass", Plain("atom"), NoTerminal) >>
UnaryRules(oul, our) ==
    << IF Len(oul) > 0
       THEN Aliased(Plain("eul"), "prefix", Plain("eur"), Plain("OUL"), Plain("eul"))
       ELSE Rule(Plain("eul"), "pass", Plain("eur"), NoTerminal),
       IF Len(our) > 0
       THEN Aliased(Plain("eur"), "postfix", Plain("atom"), Plain("OUR"), Plain("eur"))
       ELSE Rule(Plain("eur"), "pass", Plain("atom"), NoTerminal) >>

make_grammar(oul, our, oblr, obrl) ==
    LET loblr == make_binary_ops(oblr, FALSE)
        lobrl == make_binary_ops(obrl, TRUE)
        leblr == make_binary_exprs(oblr, FALSE)
        lebrl == make_binary_exprs(obrl, TRUE)
        soul == IF Len(oul) > 0
                THEN << [name |-> Plain("OUL"), toks |-> DictKeys(oul)] >> ELSE << >>
        sour == IF Len(our) > 0
                THEN << [name |-> Plain("OUR"), toks |-> DictKeys(our)] >> ELSE << >>
    IN  [rules |-> << Rule(Plain("expr"), "pass", Plain("eblr"), NoTerminal) >>
                   \o leblr \o lebrl \o UnaryRules(oul, our),
         terms |-> loblr \o lobrl \o soul \o sour]

(***************************************************************************)
(* lark.Lark(grammar): the grammar is rejected when the text of a rule or  *)
(* terminal name is not a name (a precedence whose text holds "-" or "."), *)
(* or a name is defined twice.                                             *)
(***************************************************************************)
ValidName(name) == \A i \in 1..Len(name.sfx) : IsDigit(name.sfx[i])

Distinct(s) == \A i, j \in 1..Len(s) : i # j => s[i].name # s[j].name

LarkAccepts(g) ==
    /\ \A i \in 1..Len(g.rules) : ValidName(g.rules[i].name)
    /\ \A i \in 1..Len(g.terms) : ValidName(g.terms[i].name)
    /\ Distinct(g.rules)
    /\ Distinct(g.terms)

\* A Parser instance: its operator dicts and the identifiers of its
\* transformer (its grammar and its lark parser are functions of the
\* dicts).  err names the exception that ended its construction; NoParser
\* is no instance at all.
NoParser ==
    [err |-> "unconstructed", oul |-> << >>, our |-> << >>, oblr |-> << >>,
     obrl |-> << >>, identifiers |-> << >>]

\* Parser(unary_operators, binary_operators).
Parser_init(unary_operators, binary_operators) ==
    LET u == PyOr(unary_operators, default_unary_operators).items
        b == PyOr(binary_operators, default_binary_operators).items
        oul == UnaryDict(u, "prefix", << >>)
        our == UnaryDict(u, "postfix", << >>)
        st == BinaryDicts(b, [err |-> "-", oblr |-> << >>, obrl |-> << >>])
        g == make_grammar(oul, our, st.oblr, st.obrl)
    IN  IF st.err # "-" THEN [NoParser EXCEPT !.err = st.err]
        ELSE IF ~LarkAccepts(g) THEN [NoParser EXCEPT !.err = "GrammarError"]
        ELSE [err |-> "-", oul |-> oul, our |-> our, oblr |-> st.oblr,
              obrl |-> st.obrl, identifiers |-> << >>]

\* self.grammar of an instance.
Grammar(p) == make_grammar(p.oul, p.our, p.oblr, p.obrl)

(***************************************************************************)
(* self.parser.parse(string): the LALR parse of the token sequence, as the *)
(* descent through the rules of the grammar that builds the same tree.     *)
(* Rules marked ? with one child are inlined; anonymous tokens ("(", ",",  *)
(* ")") are dropped from the tree; named terminals are kept as tokens.     *)
(* The lexer is contextual: a token string is read as the terminal the     *)
(* parser can accept at that point.                                        *)
(***************************************************************************)
CNAMES == {"x", "y", "f", "g"} \cup {default_names[i] : i \in 1..Len(default_names)}
IsNUMBER(t) == IsDigit(t)
IsIDENTIFIER(t) == t \in CNAMES

Tok(toks, pos) == IF pos <= Len(toks) THEN toks[pos] ELSE "$END"
Node(data, kids) == [data |-> data, tok |-> "-", kids |-> kids]
Leaf(t) == [data |-> Plain("Token"), tok |-> t, kids |-> << >>]
Fail(pos) == [ok |-> FALSE, tree |-> Leaf("-"), pos |-> pos]
Done(tree, pos) == [ok |-> TRUE, tree |-> tree, pos |-> pos]

FindRule(g, name) == g.rules[CHOOSE i \in 1..Len(g.rules) : g.rules[i].name = name]
TermToks(g, name) ==
    LET t == g.terms[CHOOSE i \in 1..Len(g.terms) : g.terms[i].name = name]
    IN  {t.toks[j] : j \in 1..Len(t.toks)}

RECURSIVE ParseRule(_, _, _, _), LeftLoop(_, _, _, _, _), ParseAtom(_, _, _), ParseArgs(_, _, _, _)

ParseRule(g, name, toks, pos) ==
    IF name = Plain("atom") THEN ParseAtom(g, toks, pos)
    ELSE
    LET r == FindRule(g, name)
    IN  CASE r.form = "pass" -> ParseRule(g, r.next, toks, pos)
          [] r.form \in {"lrec", "postfix"} ->
                LET first == ParseRule(g, r.next, toks, pos)
                IN  IF first.ok THEN LeftLoop(g, r, toks, first.tree, first.pos)
                    ELSE first
          [] r.form = "rrec" ->
                LET first == ParseRule(g, r.next, toks, pos)
                IN  IF ~first.ok \/ Tok(toks, first.pos) \notin TermToks(g, r.op)
                    THEN first
                    ELSE LET rest == ParseRule(g, r.name, toks, first.pos + 1)
                         IN  IF rest.ok
                             THEN Done(Node(r.data, << first.tree,
                                                       Leaf(Tok(toks, first.pos)),
                                                       rest.tree >>), rest.pos)
                             ELSE rest
          [] r.form = "prefix" ->
                IF Tok(toks, pos) \in TermToks(g, r.op)
                THEN LET inner == ParseRule(g, r.name, toks, pos + 1)
                     IN  IF inner.ok
                         THEN Done(Node(r.data, << Leaf(Tok(toks, pos)), inner.tree >>),
                                   inner.pos)
                         ELSE inner
                ELSE ParseRule(g, r.next, toks, pos)

\* The repetition of a left-recursive rule: lhs is the tree read so far.
LeftLoop(g, r, toks, lhs, pos) ==
    IF Tok(toks, pos) \notin TermToks(g, r.op) THEN Done(lhs, pos)
    ELSE IF r.form = "postfix"
    THEN LeftLoop(g, r, toks, Node(r.data, << lhs, Leaf(Tok(toks, pos)) >>), pos + 1)
    ELSE LET rhs == ParseRule(g, r.next, toks, pos + 1)
         IN  IF rhs.ok
             THEN LeftLoop(g, r, toks,
                           Node(r.data, << lhs, Leaf(Tok(toks, pos)), rhs.tree >>),
                           rhs.pos)
             ELSE rhs

ParseAtom(g, toks, pos) ==
    LET t == Tok(toks, pos)
    IN  IF IsNUMBER(t) THEN Done(Node(Plain("number"), << Leaf(t) >>), pos + 1)
        ELSE IF IsIDENTIFIER(t)
        THEN IF Tok(toks, pos + 1) = "("
             THEN LET a == ParseRule(g, Plain("expr"), toks, pos + 2)
                  IN  IF a.ok THEN ParseArgs(g, toks, << Leaf(t), a.tree >>, a.pos)
                      ELSE a
             ELSE Done(Node(Plain("identifier"), << Leaf(t) >>), pos + 1)
        ELSE IF t = "("
        THEN LET e == ParseRule(g, Plain("expr"), toks, pos + 1)
             IN  IF e.ok /\ Tok(toks, e.pos) = ")" THEN Done(e.tree, e.pos + 1)
                 ELSE IF e.ok THEN Fail(e.pos) ELSE e
        ELSE Fail(pos)

\* function: IDENTIFIER "(" expr ["," expr]* ")", after the first argument.
ParseArgs(g, toks, kids, pos) ==
    IF Tok(toks, pos) = ")" THEN Done(Node(Plain("function"), kids), pos + 1)
    ELSE IF Tok(toks, pos) = ","
    THEN LET a == ParseRule(g, Plain("expr"), toks, pos + 1)
         IN  IF a.ok THEN ParseArgs(g, toks, Append(kids, a.tree), a.pos) ELSE a
    ELSE Fail(pos)

\* The tree of the whole text, or the syntax error.
Parse(g, toks) ==
    LET r == ParseRule(g, Plain("expr"), toks, 1)
    IN  IF r.ok /\ r.pos = Len(toks) + 1 THEN r ELSE Fail(r.pos)

(***************************************************************************)
(* The Transformer.  A callback receives the list `tokens` of the          *)
(* children of its node: a token (kept as it is) or the value its subtree  *)
(* was transformed to.  Children are transformed left to right, and the    *)
(* first exception ends the transformation.                                *)
(***************************************************************************)
TokenItem(t) == [isTok |-> TRUE, tok |-> t, val |-> PyNone]
ValueItem(v) == [isTok |-> FALSE, tok |-> "-", val |-> v]
Values(items) == [i \in 1..Len(items) |-> items[i].val]

number(tr, tokens) == Ok(PyInt(DigitValue(tokens[1].tok)))

identifier(tr, tokens) ==
    LET s == tokens[1].tok
    IN  IF DictHas(tr.identifiers, s) THEN Ok(DictGet(tr.identifiers, s))
        ELSE Raise("KeyError", s)

function(tr, tokens) ==
    LET name == tokens[1].tok
    IN  IF DictHas(tr.identifiers, name)
        THEN Call(DictGet(tr.identifiers, name), Values(Tail(tokens)))
        ELSE Raise("KeyError", name)

\* try: return self.oul[op](value)  except KeyError: raise ValueError(...)
eul(tr, tokens) ==
    LET op == tokens[1].tok
        value == tokens[2].val
        r == IF DictHas(tr.oul, op) THEN Call(DictGet(tr.oul, op), << value >>)
             ELSE Raise("KeyError", op)
    IN  IF ~r.ok /\ r.exc = "KeyError"
        THEN Raise("ValueError", "unknown unary prefix operator")
        ELSE r

eur(tr, tokens) ==
    LET op == tokens[2].tok
        value == tokens[1].val
        r == IF DictHas(tr.our, op) THEN Call(DictGet(tr.our, op), << value >>)
             ELSE Raise("KeyError", op)
    IN  IF ~r.ok /\ r.exc = "KeyError"
        THEN Raise("ValueError", "unknown unary postfix operator")
        ELSE r

\* try: return ops[precedence][op](lhs, rhs)  except IndexError: raise ValueError(...)
BinaryCallback(ops, precedence, tokens, msg) ==
    LET op == tokens[2].tok
        lhs == tokens[1].val
        rhs == tokens[3].val
        r == IF ~DictHas(ops, PyInt(precedence)) THEN Raise("KeyError", "precedence")
             ELSE IF ~DictHas(DictGet(ops, PyInt(precedence)), op) THEN Raise("KeyError", op)
             ELSE Call(DictGet(DictGet(ops, PyInt(precedence)), op), << lhs, rhs >>)
    IN  IF ~r.ok /\ r.exc = "IndexError" THEN Raise("ValueError", msg) ELSE r

eblr(tr, precedence, tokens) ==
    BinaryCallback(tr.oblr, precedence, tokens, "unknown binary left-to-right operator")

ebrl(tr, precedence, tokens) ==
    BinaryCallback(tr.obrl, precedence, tokens, "unknown binary right-to-left operator")

\* getattr(self, tree.data)(children): the methods above, and __getattr__
\* for the names that start with "eb".
Callback(tr, data, tokens) ==
    CASE data = Plain("number") -> number(tr, tokens)
      [] data = Plain("identifier") -> identifier(tr, tokens)
      [] data = Plain("function") -> function(tr, tokens)
      [] data = Plain("eul") -> eul(tr, tokens)
      [] data = Plain("eur") -> eur(tr, tokens)
      [] OTHER ->
            LET match == re_binary_op(data)
            IN  IF ~match.found THEN Raise("TypeError", "match is None")
                ELSE IF match.dir = "lr" THEN eblr(tr, match.precedence, tokens)
                ELSE ebrl(tr, match.precedence, tokens)

RECURSIVE transform(_, _), TransformChildren(_, _, _)

\* [ok, items, raised]: the transformed children, or the first exception.
TransformChildren(tr, kids, acc) ==
    IF kids = << >> THEN [ok |-> TRUE, items |-> acc, raised |-> Ok(PyNone)]
    ELSE LET k == Head(kids)
         IN  IF k.data = Plain("Token")
             THEN TransformChildren(tr, Tail(kids), Append(acc, TokenItem(k.tok)))
             ELSE LET r == transform(tr, k)
                  IN  IF r.ok
                      THEN TransformChildren(tr, Tail(kids), Append(acc, ValueItem(r.val)))
                      ELSE [ok |-> FALSE, items |-> acc, raised |-> r]

transform(tr, tree) ==
    LET c == TransformChildren(tr, tree.kids, << >>)
    IN  IF c.ok THEN Callback(tr, tree.data, c.items) ELSE c.raised

(***************************************************************************)
(* Parser.calc, in its three steps, and the module-level calc.             *)
(***************************************************************************)
EmptyDict == Given(<< >>)

\* self.transformer.identifiers = identifiers or {}
StoreIdentifiersOnce(p, identifiers) ==
    IF p.identifiers = << >>
    THEN [p EXCEPT !.identifiers = PyOr(identifiers, EmptyDict).items]
    ELSE p
StoreIdentifiers(p, identifiers) ==
    [p EXCEPT !.identifiers = PyOr(identifiers, EmptyDict).items]

\* tree = self.parser.parse(string)
ParseText(p, string) == Parse(Grammar(p), string)

SyntaxError == Raise("UnexpectedInput", "-")

\* return self.transformer.transform(tree)
TransformTree(p, parsed) ==
    IF parsed.ok THEN transform(p, parsed.tree) ELSE SyntaxError

\* The whole of Parser.calc: the instance afterwards and the outcome.
Parser_calc(p, string, identifiers) ==
    LET p1 == StoreIdentifiers(p, identifiers)
    IN  [parser |-> p1, outcome |-> TransformTree(p1, ParseText(p1, string))]

\* Which identifiers the module-level calc hands to a fresh Parser.
FreshIdentifiers(identifiers) == PyOr(identifiers, default_identifiers)

\* calc(string, identifiers, unary_operators, binary_operators) with dp the
\* module's _default_parser: dp afterwards and the outcome.
calc(dp, string, identifiers, unary_operators, binary_operators) ==
    IF ~unary_operators.given /\ ~binary_operators.given
    THEN Parser_calc(dp, string, identifiers)
    ELSE LET p == Parser_init(PyOr(unary_operators, default_unary_operators),
                              PyOr(binary_operators, default_binary_operators))
         IN  [parser |-> dp,
              outcome |-> IF p.err # "-" THEN Raise(p.err, "Parser")
                          ELSE Parser_calc(p, string,
                                           FreshIdentifiers(identifiers)).outcome]

(***************************************************************************)
(* The state.                                                              *)
(*   tables          the operator tables the caller holds                  *)
(*   parser          the Parser instance the caller constructs from them   *)
(*   default_parser  the identifiers of the transformer of the module's    *)
(*                   _default_parser (the rest of it never changes)        *)
(*   calls           the calls of calc: their arguments, how far each has  *)
(*                   got, and its outcome                                  *)
(***************************************************************************)
VARIABLES tables, parser, default_parser, calls

vars == << tables, parser, default_parser, calls >>

Pending == [ok |-> FALSE, val |-> PyNone, exc |-> "pending", msg |-> "-"]

\* A call that has not begun.  before will hold the identifiers the
\* transformer held when the call began, parsed the tree between the parse
\* and the transformation.
Ready(string, identifiers) ==
    [pc |-> "ready", via |-> "-", string |-> string, identifiers |-> identifiers,
     before |-> << >>, parsed |-> Fail(0), outcome |-> Pending]

\* _default_parser = Parser(default_unary_operators, default_binary_operators)
InitialDefaultParser == Parser_init(default_unary_operators, default_binary_operators)

\* The module's _default_parser as it is now.
DefaultParser == [InitialDefaultParser EXCEPT !.identifiers = default_parser]

\* The caller holds the arguments of an input i and has constructed nothing.
InitWith(i) ==
    /\ tables = [unary |-> i.unary, binary |-> i.binary]
    /\ parser = NoParser
    /\ default_parser = InitialDefaultParser.identifiers
    /\ calls = [c \in {1} |-> Ready(i.string, i.identifiers)]

Input(unary, binary, string, identifiers) ==
    [unary |-> unary, binary |-> binary, string |-> string, identifiers |-> identifiers]

\* parser = Parser(unary_operators, binary_operators)
Construct ==
    /\ parser = NoParser
    /\ parser' = Parser_init(tables.unary, tables.binary)
    /\ UNCHANGED << tables, default_parser, calls >>

\* parser.calc(string, identifiers), from call to return.
ParserCalc(c) ==
    /\ parser.err = "-"
    /\ calls[c].pc = "ready"
    /\ LET r == Parser_calc(parser, calls[c].string, calls[c].identifiers)
       IN  /\ parser' = r.parser
           /\ calls' = [calls EXCEPT ![c].pc = "done", ![c].via = "parser",
                                     ![c].before = parser.identifiers,
                                     ![c].outcome = r.outcome]
    /\ UNCHANGED << tables, default_parser >>

\* calc(string, identifiers, unary_operators, binary_operators), from call
\* to return.
ModuleCalc(c) ==
    /\ calls[c].pc = "ready"
    /\ LET r == calc(DefaultParser, calls[c].string, calls[c].identifiers,
                     tables.unary, tables.binary)
       IN  /\ default_parser' = r.parser.identifiers
           /\ calls' = [calls EXCEPT ![c].pc = "done", ![c].via = "module",
                                     ![c].outcome = r.outcome]
    /\ UNCHANGED << tables, parser >>

Next ==
    \/ Construct
    \/ \E c \in DOMAIN calls : ParserCalc(c)
    \/ \E c \in DOMAIN calls : ModuleCalc(c)

\* The caller prepares its next call, once the last has returned.
Request(c, string, identifiers) ==
    /\ calls[c].pc = "done"
    /\ calls' = [calls EXCEPT ![c] = Ready(string, identifiers)]
    /\ UNCHANGED << tables, parser, default_parser >>

(***************************************************************************)
(* Parser.calc step by step, for calls that run at the same time on one    *)
(* instance: the assignment to self.transformer.identifiers, the parse,    *)
(* the transformation.                                                     *)
(***************************************************************************)
StoreStep(c) ==
    /\ parser.err = "-"
    /\ calls[c].pc = "ready"
    /\ parser' = StoreIdentifiers(parser, calls[c].identifiers)
    /\ calls' = [calls EXCEPT ![c].pc = "stored", ![c].via = "parser",
                              ![c].before = parser.identifiers]
    /\ UNCHANGED << tables, default_parser >>

ParseStep(c) ==
    /\ calls[c].pc = "stored"
    /\ LET t == ParseText(parser, calls[c].string)
       IN  calls' = [calls EXCEPT ![c].pc = IF t.ok THEN "parsed" ELSE "done",
                                  ![c].parsed = t,
                                  ![c].outcome = IF t.ok THEN Pending ELSE SyntaxError]
    /\ UNCHANGED << tables, parser, default_parser >>

TransformStep(c) ==
    /\ calls[c].pc = "parsed"
    /\ calls' = [calls EXCEPT ![c].pc = "done",
                              ![c].outcome = TransformTree(parser, calls[c].parsed)]
    /\ UNCHANGED << tables, parser, default_parser >>

NextConcurrent ==
    \/ \E c \in DOMAIN calls : StoreStep(c)
    \/ \E c \in DOMAIN calls : ParseStep(c)
    \/ \E c \in DOMAIN calls : TransformStep(c)

(***************************************************************************)
(* Inputs: binary operator tables and chains of binary operators.          *)
(***************************************************************************)
\* The most entries of a binary operator table.
MaxTable == 3
\* The most operators of a text.
MaxOps == 2

Operands == {"2", "3"}
BinaryTokens == {"-", "*", "^"}
BinaryFn == [t \in BinaryTokens |->
                CASE t = "-" -> "sub" [] t = "*" -> "mul" [] OTHER -> "pow"]
Precedences == {1, 2}

\* Every token at every precedence, lr or rl; the lr tags of "-" at 2 name
\* "lr", the others leave the third member out.
BinaryTags ==
    ({BTag(t, PyInt(pr), a, BinaryFn[t]) :
        t \in BinaryTokens, pr \in Precedences, a \in {"omitted", "rl"}}
     \ {BTag("-", PyInt(2), "omitted", "sub")})
    \cup {BTag("-", PyInt(2), "lr", "sub")}

TableTokens(b) == {b[i].tok : i \in 1..Len(b)}

\* The tables of n entries with n distinct tokens, in every order.
RECURSIVE BinaryTablesOf(_)
BinaryTablesOf(n) ==
    IF n = 0 THEN {<< >>}
    ELSE UNION {{Append(b, e) : e \in {x \in BinaryTags : x.tok \notin TableTokens(b)}} :
                    b \in BinaryTablesOf(n - 1)}

BinaryTables == UNION {BinaryTablesOf(n) : n \in 1..MaxTable}

\* The texts  2 op 3 op 2 ...  of n operators, the operands alternating.
OtherOperand(a) == CHOOSE b \in Operands : b # a

RECURSIVE Chains(_, _)
Chains(ops, n) ==
    IF n = 0 THEN {<< "2" >>}
    ELSE {c \o << o, OtherOperand(c[Len(c)]) >> : c \in Chains(ops, n - 1), o \in ops}

ChainTexts(ops) == UNION {Chains(ops, n) : n \in 0..MaxOps}

InitPrec ==
    \E b \in BinaryTables : \E s \in ChainTexts(TableTokens(b)) :
        InitWith(Input(NotGiven, Given(b), s, NotGiven))

SpecPrec == InitPrec /\ [][Next]_vars

(***************************************************************************)
(* What a text means, read off the caller's tables: the reference the      *)
(* outcomes of calls are compared with.                                    *)
(***************************************************************************)
Finished(c) == calls[c].pc = "done"
BinaryTable == tables.binary.items
TagOf(tok) == BinaryTable[CHOOSE i \in 1..Len(BinaryTable) : BinaryTable[i].tok = tok]
Group(tag) == IF tag.assoc = "rl" THEN "rl" ELSE "lr"
Literal(tok) == Ok(PyInt(DigitValue(tok)))

\* fn(x, y) for outcomes x and y, x evaluated first.
Apply2(fn, x, y) ==
    IF ~x.ok THEN x ELSE IF ~y.ok THEN y ELSE Call(fn, << x.val, y.val >>)

\* A text  a op b op c ...  with every operator in the caller's table.
IsChain(s) ==
    /\ tables.binary.given
    /\ Len(s) % 2 = 1
    /\ \A i \in 1..Len(s) :
          IF i % 2 = 1 THEN IsDigit(s[i]) ELSE s[i] \in TableTokens(BinaryTable)

\* ((a op b) op c) ... over the first n operators of s.
RECURSIVE LeftNest(_, _)
LeftNest(s, n) ==
    IF n = 0 THEN Literal(s[1])
    ELSE Apply2(TagOf(s[2 * n]).fn, LeftNest(s, n - 1), Literal(s[2 * n + 1]))

\* a op (b op (c ...)) from the i-th operand of s on.
RECURSIVE RightNest(_, _)
RightNest(s, i) ==
    IF 2 * i - 1 = Len(s) THEN Literal(s[2 * i - 1])
    ELSE Apply2(TagOf(s[2 * i]).fn, Literal(s[2 * i - 1]), RightNest(s, i + 1))

NumOps(s) == (Len(s) - 1) \div 2

\* (a o1 b) o2 c  and  a o1 (b o2 c)  for a text of two operators.
FirstTighter(s) == LeftNest(s, 2)
SecondTighter(s) == RightNest(s, 1)

\* C2: within one associativity group the operator of the lower precedence
\* number binds tighter, however the table is ordered: a text of two
\* operators of one group and different precedence numbers groups around the
\* operator of the lower number.
C2_NumericPrecedence ==
    \A c \in DOMAIN calls :
        LET s == calls[c].string
        IN  (Finished(c) /\ IsChain(s) /\ Len(s) = 5
                /\ Group(TagOf(s[2])) = Group(TagOf(s[4]))
                /\ TagOf(s[2]).pr # TagOf(s[4]).pr)
            => calls[c].outcome =
                  IF TagOf(s[2]).pr.n < TagOf(s[4]).pr.n
                  THEN FirstTighter(s) ELSE SecondTighter(s)

\* C5: every rl operator binds tighter than every lr operator, whatever the
\* precedence numbers: a R b L c is (a R b) L c, and a L b R c is a L (b R c).
C5_RlBindsTighter ==
    \A c \in DOMAIN calls :
        LET s == calls[c].string
        IN  (Finished(c) /\ IsChain(s) /\ Len(s) = 5
                /\ Group(TagOf(s[2])) # Group(TagOf(s[4])))
            => calls[c].outcome =
                  IF Group(TagOf(s[2])) = "rl"
                  THEN FirstTighter(s) ELSE SecondTighter(s)

\* An rl operator of precedence number 2 before an lr operator of number 1
\* took its operands first, and the other grouping has another value.
C5_Witness ==
    \E c \in DOMAIN calls :
        LET s == calls[c].string
        IN  /\ Finished(c) /\ calls[c].via = "parser"
            /\ IsChain(s) /\ Len(s) = 5
            /\ Group(TagOf(s[2])) = "rl" /\ Group(TagOf(s[4])) = "lr"
            /\ TagOf(s[2]).pr.n > TagOf(s[4]).pr.n
            /\ calls[c].outcome.ok
            /\ calls[c].outcome = FirstTighter(s)
            /\ FirstTighter(s) # SecondTighter(s)

\* Every operator of the text is of one precedence level of one group.
OneLevel(s) ==
    \A i, j \in 1..NumOps(s) :
        /\ TagOf(s[2 * i]).pr = TagOf(s[2 * j]).pr
        /\ Group(TagOf(s[2 * i])) = Group(TagOf(s[2 * j]))

\* C6: a chain of operators of one precedence level is nested to the left
\* when the level is lr (a tag without a third member counts as lr) and to
\* the right when it is rl.
C6_ChainAssociativity ==
    \A c \in DOMAIN calls :
        LET s == calls[c].string
        IN  (Finished(c) /\ IsChain(s) /\ Len(s) >= 3 /\ OneLevel(s))
            => calls[c].outcome =
                  IF Group(TagOf(s[2])) = "rl"
                  THEN RightNest(s, 1) ELSE LeftNest(s, NumOps(s))

\* A chain of two operators of a level, one of a tag without a third member,
\* came out nested to the left, and nesting to the right has another value.
C6_Witness ==
    \E c \in DOMAIN calls :
        LET s == calls[c].string
        IN  /\ Finished(c) /\ calls[c].via = "parser"
            /\ IsChain(s) /\ Len(s) = 5 /\ OneLevel(s)
            /\ "omitted" \in {TagOf(s[2]).assoc, TagOf(s[4]).assoc}
            /\ calls[c].outcome.ok
            /\ calls[c].outcome = LeftNest(s, 2)
            /\ LeftNest(s, 2) # RightNest(s, 1)

(***************************************************************************)
(* Inputs: unary operator tables and texts  p ... p a s ... s.             *)
(***************************************************************************)
\* The most prefix operators, and the most postfix operators, of a text.
MaxUnary == 2

UnaryTags ==
    {UTag("?", "prefix", "dbl"), UTag("~", "prefix", "neg"),
     UTag("!", "postfix", "inc"), UTag("@", "postfix", "sqr")}

RECURSIVE UnaryTablesOf(_)
UnaryTablesOf(n) ==
    IF n = 0 THEN {<< >>}
    ELSE UNION {{Append(u, e) : e \in {x \in UnaryTags : x.tok \notin TableTokens(u)}} :
                    u \in UnaryTablesOf(n - 1)}

UnaryTables == UNION {UnaryTablesOf(n) : n \in 1..MaxTable}

SideTokens(u, side) == {u[i].tok : i \in {j \in 1..Len(u) : u[j].side = side}}

\* The sequences of at most n tokens of a set.
RECURSIVE TokenSeqs(_, _)
TokenSeqs(toks, n) ==
    IF n = 0 THEN {<< >>}
    ELSE TokenSeqs(toks, n - 1)
         \cup {Append(q, t) : q \in {x \in TokenSeqs(toks, n - 1) : Len(x) = n - 1},
                              t \in toks}

UnaryTexts(u) ==
    {pre \o << a >> \o post :
        pre \in TokenSeqs(SideTokens(u, "prefix"), MaxUnary),
        a \in Operands,
        post \in TokenSeqs(SideTokens(u, "postfix"), MaxUnary)}

InitUnary ==
    \E u \in UnaryTables : \E s \in UnaryTexts(u) :
        InitWith(Input(Given(u), NotGiven, s, NotGiven))

SpecUnary == InitUnary /\ [][Next]_vars

UnaryTable == tables.unary.items
UnaryFn(tok, side) ==
    UnaryTable[CHOOSE i \in 1..Len(UnaryTable) :
                   UnaryTable[i].tok = tok /\ UnaryTable[i].side = side].fn

Apply1(fn, x) == IF ~x.ok THEN x ELSE Call(fn, << x.val >>)

\* The place of the operand of a text  p ... p a s ... s  (0 when the text
\* is of another form).
OperandPlace(s) ==
    LET places == {i \in 1..Len(s) :
                      /\ IsDigit(s[i])
                      /\ \A j \in 1..(i - 1) : s[j] \in SideTokens(UnaryTable, "prefix")
                      /\ \A j \in (i + 1)..Len(s) : s[j] \in SideTokens(UnaryTable, "postfix")}
    IN  IF tables.unary.given /\ places # {} THEN CHOOSE i \in places : TRUE ELSE 0

\* The operand at place i under its first n postfix operators.
RECURSIVE PostfixApplied(_, _, _)
PostfixApplied(s, i, n) ==
    IF n = 0 THEN Literal(s[i])
    ELSE Apply1(UnaryFn(s[i + n], "postfix"), PostfixApplied(s, i, n - 1))

\* The text from place j on, the operand at place i: the prefix operators
\* applied, the last of them first, to the operand under all its postfix
\* operators.
RECURSIVE PrefixApplied(_, _, _)
PrefixApplied(s, i, j) ==
    IF j = i THEN PostfixApplied(s, i, Len(s) - i)
    ELSE Apply1(UnaryFn(s[j], "prefix"), PrefixApplied(s, i, j + 1))

\* C7: in  p1 ... pm a s1 ... sn  the postfix operators are applied to a
\* first, s1 innermost, and then the prefix operators, pm innermost.
C7_PostfixBeforePrefix ==
    \A c \in DOMAIN calls :
        LET s == calls[c].string
        IN  (Finished(c) /\ OperandPlace(s) # 0)
            => calls[c].outcome = PrefixApplied(s, OperandPlace(s), 1)

\* A text  p a s  was evaluated to p(s(a)), which is not s(p(a)).
C7_Witness ==
    \E c \in DOMAIN calls :
        LET s == calls[c].string
        IN  /\ Finished(c) /\ calls[c].via = "parser"
            /\ Len(s) = 3 /\ OperandPlace(s) = 2
            /\ calls[c].outcome.ok
            /\ calls[c].outcome =
                  Apply1(UnaryFn(s[1], "prefix"),
                         Apply1(UnaryFn(s[3], "postfix"), Literal(s[2])))
            /\ calls[c].outcome #
                  Apply1(UnaryFn(s[3], "postfix"),
                         Apply1(UnaryFn(s[1], "prefix"), Literal(s[2])))

(***************************************************************************)
(* Inputs: names and bindings, callables that raise, and tables with       *)
(* unusual tags.                                                           *)
(***************************************************************************)
Binding(k, v) == [key |-> k, val |-> v]

\* The operator tables of a call: both left out, both given, one given.
NameTables ==
    {<< NotGiven, NotGiven >>,
     << default_unary_operators, default_binary_operators >>,
     << NotGiven, default_binary_operators >>,
     << default_unary_operators, NotGiven >>}

NameTexts ==
    {<< "x" >>, << "y" >>, << "x", "+", "y" >>,
     << "f", "(", "1", ")" >>, << "x", "(", "1", ")" >>,
     << "sin", "(", "0", ")" >>, << "max", "(", "0", ",", "1", ")" >>,
     << "min", "(", "x", ",", "cos", "(", "0", ")", ")" >>}

NameDicts ==
    {NotGiven, EmptyDict,
     Given(<< Binding("x", PyInt(1)) >>),
     Given(<< Binding("x", PyInt(2)), Binding("y", PyInt(3)) >>),
     Given(<< Binding("f", PyFn("inc")), Binding("x", PyInt(1)) >>),
     Given(<< Binding("sin", PyFn("cos")), Binding("x", PyNone) >>)}

InitNames ==
    \E t \in NameTables : \E s \in NameTexts : \E d \in NameDicts :
        InitWith(Input(t[1], t[2], s, d))

\* Callables that raise whatever they are given.
Raisers == {"raise_KeyError", "raise_IndexError", "raise_ZeroDivisionError"}
Raised(f) ==
    CASE f = "raise_KeyError" -> "KeyError"
      [] f = "raise_IndexError" -> "IndexError"
      [] OTHER -> "ZeroDivisionError"

RaisingUnary(f) ==
    << UTag("?", "prefix", f), UTag("!", "postfix", f), UTag("~", "prefix", "neg") >>
RaisingBinary(f) ==
    << BTag("+", PyInt(1), "omitted", f), BTag("^", PyInt(1), "rl", f),
       BTag("*", PyInt(2), "lr", "mul") >>
RaisingDict(f) ==
    Given(<< Binding("f", PyFn(f)), Binding("x", PyInt(1)), Binding("g", PyFn("inc")) >>)

RaisingTexts ==
    {<< "?", "1" >>, << "1", "!" >>, << "1", "+", "2" >>, << "1", "^", "2" >>,
     << "f", "(", "1", ")" >>, << "~", "1" >>, << "2", "*", "3" >>,
     << "g", "(", "1", ")" >>}

InitRaising ==
    \E f \in Raisers : \E s \in RaisingTexts :
        InitWith(Input(Given(RaisingUnary(f)), Given(RaisingBinary(f)), s, RaisingDict(f)))

\* Tags of every shape: the precedence an int or a str, the third member
\* left out, "lr", "rl" or something else.
TagPrecedences == {PyInt(1), PyInt(2), PyStr(1)}
TagAssocs == {"omitted", "lr", "rl", "ltr"}
ShapeTokens == {"-", "*"}
ShapeTags ==
    {BTag(t, pr, a, BinaryFn[t]) : t \in ShapeTokens, pr \in TagPrecedences, a \in TagAssocs}
ShapeTables ==
    {<< e >> : e \in ShapeTags}
    \cup {<< e1, e2 >> : e1 \in {e \in ShapeTags : e.tok = "-"},
                         e2 \in {e \in ShapeTags : e.tok = "*"}}
ShapeTexts == {<< "2" >>, << "3", "-", "2" >>, << "3", "*", "2" >>}

InitShapes ==
    \E b \in ShapeTables : \E s \in ShapeTexts :
        InitWith(Input(NotGiven, Given(b), s, NotGiven))

Init == InitNames \/ InitRaising \/ InitShapes

Spec == Init /\ [][Next]_vars

\* The bindings the caller passed to call c, and whether it passed any.
Supplied(c) == calls[c].identifiers.items
IsName(t) == t \in CNAMES

\* The one name a text uses: "n" and "n ( 1 )".
UsesName(s) ==
    \/ Len(s) = 1 /\ IsName(s[1])
    \/ Len(s) = 4 /\ IsName(s[1]) /\ s[2] = "(" /\ IsDigit(s[3]) /\ s[4] = ")"

\* C3 (the claim as the specification states it): the module-level calc
\* with identifiers left out resolves names against the default catalogue,
\* on the default parser path and on the fresh Parser path alike:
\* "sin(0)" is 0, "max(0, 1)" is 1, and every text has the outcome it has
\* with the default catalogue bound.
C3_DefaultCatalogue ==
    \A c \in DOMAIN calls :
        (Finished(c) /\ calls[c].via = "module" /\ ~calls[c].identifiers.given
         /\ calls[c].string \in NameTexts)
        => /\ calls[c].string = << "sin", "(", "0", ")" >>
                => calls[c].outcome = Ok(PyInt(0))
           /\ calls[c].string = << "max", "(", "0", ",", "1", ")" >>
                => calls[c].outcome = Ok(PyInt(1))
           /\ calls[c].outcome =
                Parser_calc(InitialDefaultParser, calls[c].string,
                            default_identifiers).outcome

\* The callable a text applies first, for the texts that apply one to
\* literals:  p 1,  1 s,  1 o 2  and  n ( 1 ).
AppliedFirst(c) ==
    LET s == calls[c].string
    IN  CASE Len(s) = 2 /\ IsDigit(s[2]) /\ s[1] \in SideTokens(UnaryTable, "prefix")
               -> UnaryFn(s[1], "prefix").f
          [] Len(s) = 2 /\ IsDigit(s[1]) /\ s[2] \in SideTokens(UnaryTable, "postfix")
               -> UnaryFn(s[2], "postfix").f
          [] Len(s) = 3 /\ IsDigit(s[1]) /\ IsDigit(s[3]) /\ s[2] \in TableTokens(BinaryTable)
               -> TagOf(s[2]).fn.f
          [] UsesName(s) /\ Len(s) = 4 /\ DictHas(Supplied(c), s[1])
               -> DictGet(Supplied(c), s[1]).f
          [] OTHER -> "-"

\* C4 (the claim as the specification states it): when a callable the
\* caller supplied raises during evaluation, the call fails with exactly
\* that error.
C4_CallableErrorsSurface ==
    \A c \in DOMAIN calls :
        (Finished(c) /\ tables.unary.given /\ tables.binary.given
         /\ calls[c].identifiers.given /\ AppliedFirst(c) \in Raisers)
        => calls[c].outcome = Raise(Raised(AppliedFirst(c)), "callable")

\* C9 (the claim as the specification states it): a name absent from the
\* bindings supplied to the call fails the call with an error naming it,
\* and a name present resolves to exactly its bound value.
C9_SuppliedBindingsOnly ==
    \A c \in DOMAIN calls :
        (Finished(c) /\ calls[c].identifiers.given /\ UsesName(calls[c].string))
        => LET s == calls[c].string
           IN  /\ ~DictHas(Supplied(c), s[1])
                    => calls[c].outcome = Raise("KeyError", s[1])
               /\ (DictHas(Supplied(c), s[1]) /\ Len(s) = 1)
                    => calls[c].outcome = Ok(DictGet(Supplied(c), s[1]))

\* A tag the specification calls malformed.
Malformed(e) == e.assoc \notin {"omitted", "lr", "rl"} \/ e.pr.t # "int"
Constructed == parser # NoParser

\* C10 (the claim as the specification states it): construction fails
\* whenever some tag of the binary table is malformed, and accepts every
\* table whose tags are all well formed.
C10_MalformedTagsRejected ==
    (Constructed /\ tables.binary.given)
    => (parser.err # "-") = (\E i \in 1..Len(BinaryTable) : Malformed(BinaryTable[i]))

(***************************************************************************)
(* Calls one after another on one instance.                                *)
(***************************************************************************)
SeqUnary == Given(<< UTag("?", "prefix", "dbl"), UTag("!", "postfix", "inc") >>)
SeqTables == {<< NotGiven, NotGiven >>, << SeqUnary, default_binary_operators >>}
SeqTexts == {<< "x" >>, << "x", "+", "y" >>, << "f", "(", "x", ")" >>, << "2", "+" >>}
SeqDicts ==
    {NotGiven,
     Given(<< Binding("x", PyInt(1)) >>),
     Given(<< Binding("x", PyInt(2)), Binding("y", PyInt(3)) >>),
     Given(<< Binding("f", PyFn("raise_ZeroDivisionError")), Binding("x", PyInt(1)) >>)}

InitSeq ==
    \E t \in SeqTables : \E s \in SeqTexts : \E d \in SeqDicts :
        InitWith(Input(t[1], t[2], s, d))

NextSeq ==
    \/ Next
    \/ \E c \in DOMAIN calls : \E s \in SeqTexts : \E d \in SeqDicts : Request(c, s, d)

SpecSeq == InitSeq /\ [][NextSeq]_vars

\* C8: whatever calls came before on the instance, a call's outcome is the
\* outcome of the same text and bindings on a Parser freshly constructed
\* from the same tables; for the module's default parser, on a fresh
\* Parser of the default tables.
C8_SequentialCallsIsolated ==
    \A c \in DOMAIN calls :
        /\ (Finished(c) /\ calls[c].via = "parser")
              => calls[c].outcome =
                    Parser_calc(Parser_init(tables.unary, tables.binary),
                                calls[c].string, calls[c].identifiers).outcome
        /\ (Finished(c) /\ calls[c].via = "module"
            /\ ~tables.unary.given /\ ~tables.binary.given)
              => calls[c].outcome =
                    Parser_calc(InitialDefaultParser,
                                calls[c].string, calls[c].identifiers).outcome

\* A call of "x + y" that binds no y, on an instance whose last call bound
\* y, has failed on y.
C8_Witness ==
    \E c \in DOMAIN calls :
        /\ Finished(c) /\ calls[c].via = "parser"
        /\ calls[c].string = << "x", "+", "y" >>
        /\ DictHas(calls[c].before, "y")
        /\ DictHas(Supplied(c), "x") /\ ~DictHas(Supplied(c), "y")
        /\ calls[c].outcome = Raise("KeyError", "y")

(***************************************************************************)
(* Calls at the same time on one instance.                                 *)
(***************************************************************************)
\* The number of calls in flight.
NCalls == 2
ConcTexts == {<< "x" >>, << "x", "+", "1" >>}
ConcDicts ==
    {Given(<< Binding("x", PyInt(1)) >>), Given(<< Binding("x", PyInt(2)) >>),
     Given(<< Binding("y", PyInt(3)) >>)}

InitConc ==
    /\ tables = [unary |-> NotGiven, binary |-> NotGiven]
    /\ parser = InitialDefaultParser
    /\ default_parser = InitialDefaultParser.identifiers
    /\ calls \in [1..NCalls -> {Ready(s, d) : s \in ConcTexts, d \in ConcDicts}]

SpecConc == InitConc /\ [][NextConcurrent]_vars

\* C1 (the claim as the specification states it): however the steps of the
\* calls interleave, every call returns what it returns when the calls run
\* one after another, which is what it returns alone on the instance.
C1_ConcurrentCallsIsolated ==
    \A c \in DOMAIN calls :
        Finished(c)
        => calls[c].outcome =
              Parser_calc(InitialDefaultParser, calls[c].string,
                          calls[c].identifiers).outcome

(***************************************************************************)
(* Inputs: tables that leave a role, or a whole table, without operators.  *)
(***************************************************************************)
RoleUnary ==
    {EmptyDict,
     Given(<< UTag("-", "prefix", "neg") >>),
     Given(<< UTag("!", "postfix", "inc") >>),
     Given(<< UTag("-", "prefix", "neg"), UTag("!", "postfix", "inc") >>)}
RoleBinary ==
    {EmptyDict,
     Given(<< BTag("+", PyInt(1), "omitted", "add") >>),
     Given(<< BTag("^", PyInt(1), "rl", "pow") >>),
     Given(<< BTag("+", PyInt(2), "lr", "add"), BTag("^", PyInt(1), "rl", "pow") >>)}
RoleTexts ==
    {<< "9" >>, << "-", "9" >>, << "+", "9" >>, << "9", "!" >>,
     << "2", "+", "3" >>, << "2", "^", "3" >>, << "2", "*", "3" >>, << "2", "-", "3" >>}

InitRoles ==
    \E u \in RoleUnary : \E b \in RoleBinary : \E s \in RoleTexts :
        InitWith(Input(u, b, s, NotGiven))

SpecRoles == InitRoles /\ [][Next]_vars

\* The tokens the terminals of a stem (OUL, OUR, OBLR, OBRL) of a grammar hold.
StemTokens(g, stem) ==
    UNION {{g.terms[i].toks[j] : j \in 1..Len(g.terms[i].toks)} :
              i \in {k \in 1..Len(g.terms) : g.terms[k].name.base = stem}}

\* The tokens the caller's binary table gives a group.
GroupTokens(group) ==
    {BinaryTable[i].tok : i \in {k \in 1..Len(BinaryTable) : Group(BinaryTable[k]) = group}}

\* The texts that use one operator in one role:  p 9,  9 s,  2 o 3.
UsesPrefix(s) == Len(s) = 2 /\ IsDigit(s[2]) /\ ~IsDigit(s[1])
UsesPostfix(s) == Len(s) = 2 /\ IsDigit(s[1]) /\ ~IsDigit(s[2])
UsesBinary(s) == Len(s) = 3 /\ IsDigit(s[1]) /\ IsDigit(s[3]) /\ ~IsDigit(s[2])

\* C11 (the claim as the specification states it): the tokens a grammar
\* accepts in each role are exactly those the caller supplied for the role,
\* an empty table included: its terminals hold the supplied tokens and no
\* others, and a text that uses a token in a role is a syntax error exactly
\* when the token was not supplied for that role, so that "-9" is rejected
\* under an empty unary table.
C11_ExactlySuppliedTokens ==
    (tables.unary.given /\ tables.binary.given)
    => /\ (Constructed /\ parser.err = "-")
            => /\ StemTokens(Grammar(parser), "OUL") = SideTokens(UnaryTable, "prefix")
               /\ StemTokens(Grammar(parser), "OUR") = SideTokens(UnaryTable, "postfix")
               /\ StemTokens(Grammar(parser), "OBLR") = GroupTokens("lr")
               /\ StemTokens(Grammar(parser), "OBRL") = GroupTokens("rl")
       /\ \A c \in DOMAIN calls :
             LET s == calls[c].string
             IN  Finished(c)
                 => /\ UsesPrefix(s)
                         => (calls[c].outcome = SyntaxError)
                               = (s[1] \notin SideTokens(UnaryTable, "prefix"))
                    /\ UsesPostfix(s)
                         => (calls[c].outcome = SyntaxError)
                               = (s[2] \notin SideTokens(UnaryTable, "postfix"))
                    /\ UsesBinary(s)
                         => (calls[c].outcome = SyntaxError)
                               = (s[2] \notin TableTokens(BinaryTable))

====
